---- MODULE Spec2Model ----
(***************************************************************************)
(* A model of turbo_chopper.py: one run of main() over a parsed HTML       *)
(* document.  The document is a sequence of nodes in document order, each  *)
(* with its depth in the tree; text is a tuple of one-character strings.   *)
(***************************************************************************)
EXTENDS Integers, Sequences, FiniteSets, TLC

\* The longest document body, in blocks, that Init enumerates.
MaxBlocks == 4

VARIABLES top, doc, tree, pc, exc, the_h1s, doc_title, dirs, h1_pos, h1_index,
          chopped_thing, cursor, chopped_list, w_pos, files, the_stats, calls

vars == <<top, doc, tree, pc, exc, the_h1s, doc_title, dirs, h1_pos, h1_index,
          chopped_thing, cursor, chopped_list, w_pos, files, the_stats, calls>>

----------------------------------------------------------------------------
\* Text: str.isspace, str.strip, str.join and slugify(text, separator="_").

Whitespace == {" "}

UpperCase == <<"A", "B", "C", "D", "E", "F", "G", "H", "I", "J", "K", "L", "M",
               "N", "O", "P", "Q", "R", "S", "T", "U", "V", "W", "X", "Y", "Z">>

LowerCase == <<"a", "b", "c", "d", "e", "f", "g", "h", "i", "j", "k", "l", "m",
               "n", "o", "p", "q", "r", "s", "t", "u", "v", "w", "x", "y", "z">>

SEPARATOR == "_"

EXTN_XML == <<".", "x", "m", "l">>

Range(s) == {s[i] : i \in 1..Len(s)}

isspace(s) == Len(s) > 0 /\ \A i \in 1..Len(s) : s[i] \in Whitespace

RECURSIVE lstrip(_, _)
lstrip(s, drop) ==
    IF s = <<>> THEN s
    ELSE IF Head(s) \in drop THEN lstrip(Tail(s), drop) ELSE s

RECURSIVE rstrip(_, _)
rstrip(s, drop) ==
    IF s = <<>> THEN s
    ELSE IF s[Len(s)] \in drop THEN rstrip(SubSeq(s, 1, Len(s) - 1), drop) ELSE s

strip(s) == rstrip(lstrip(s, Whitespace), Whitespace)

lower(c) ==
    IF c \in Range(UpperCase)
    THEN LowerCase[CHOOSE i \in 1..Len(UpperCase) : UpperCase[i] = c]
    ELSE c

\* One run of disallowed characters becomes one "-".
RECURSIVE dashed(_)
dashed(s) ==
    IF s = <<>> THEN <<>>
    ELSE LET c == lower(Head(s))
             rest == dashed(Tail(s))
         IN IF c \in Range(LowerCase) THEN <<c>> \o rest
            ELSE IF rest # <<>> /\ Head(rest) = "-" THEN rest
            ELSE <<"-">> \o rest

slugify(s) ==
    LET t == rstrip(lstrip(dashed(s), {"-"}), {"-"})
    IN [i \in 1..Len(t) |-> IF t[i] = "-" THEN SEPARATOR ELSE t[i]]

\* join with the separator left out.
RECURSIVE join_unspaced(_)
join_unspaced(list) ==
    IF list = <<>> THEN <<>> ELSE list[1] \o join_unspaced(Tail(list))

RECURSIVE join(_)
join(list) ==
    IF list = <<>> THEN <<>>
    ELSE IF Len(list) = 1 THEN list[1]
    ELSE list[1] \o <<" ">> \o join(Tail(list))

----------------------------------------------------------------------------
\* The parsed tree.

None == <<"None">>

Tag(n, d, a) == [kind |-> "Tag", name |-> n, text |-> <<>>, depth |-> d, attrs |-> a]

NavigableString(s, d) ==
    [kind |-> "NavigableString", name |-> "None", text |-> s, depth |-> d, attrs |-> ""]

Comment(s, d) ==
    [kind |-> "Comment", name |-> "None", text |-> s, depth |-> d, attrs |-> ""]

\* The last node of the subtree rooted at node i.
RECURSIVE SubtreeEnd(_, _, _)
SubtreeEnd(t, i, j) ==
    IF j < Len(t) /\ t[j + 1].depth > t[i].depth THEN SubtreeEnd(t, i, j + 1) ELSE j

\* Tag.children: the immediate children of node i, in order.
children(t, i) ==
    SelectSeq([k \in 1..(SubtreeEnd(t, i, i) - i) |-> i + k],
              LAMBDA j : t[j].depth = t[i].depth + 1)

\* PageElement.string: a string is its own .string; a tag with exactly one
\* child has that child's .string; any other tag has none.
RECURSIVE string(_, _)
string(t, i) ==
    IF t[i].kind # "Tag" THEN t[i].text
    ELSE LET c == children(t, i)
         IN IF Len(c) # 1 THEN None ELSE string(t, c[1])

find_all(t, n) ==
    SelectSeq([i \in 1..Len(t) |-> i], LAMBDA i : t[i].kind = "Tag" /\ t[i].name = n)

----------------------------------------------------------------------------
\* Module-level settings of the script.

DUPLICATES_TRIGGERS_ERROR == FALSE

VALID_ELEMENTS == {"p"}

promote_these == <<"h2", "h3", "h4", "h5">>

\* ElementStatisticsClass(): all counters zero, both tallies empty.
EmptyDict == [k \in {} |-> 0]

ElementStatisticsClass ==
    [element_count |-> 0, parsed_tag_count |-> 0, invalid_tag_count |-> 0,
     valid_tag_dict |-> EmptyDict, invalid_tag_dict |-> EmptyDict]

----------------------------------------------------------------------------
\* Input documents: a body is a sequence of at most MaxBlocks blocks.

\* <h1 id="t">A </h1>
BlockTitle == <<Tag("h1", 0, "id=t"), NavigableString(<<"A", " ">>, 1)>>

\* <h2>a</h2>
BlockH2 == <<Tag("h2", 0, ""), NavigableString(<<"a">>, 1)>>

\* <h3 class="k"><b>b</b></h3>
BlockH3 == <<Tag("h3", 0, "class=k"), Tag("b", 1, ""), NavigableString(<<"b">>, 2)>>

\* <h1> </h1>
BlockBlank == <<Tag("h1", 0, ""), NavigableString(<<" ">>, 1)>>

\* <h5>c<i>d</i></h5>
BlockH5 == <<Tag("h5", 0, ""), NavigableString(<<"c">>, 1), Tag("i", 1, ""),
             NavigableString(<<"d">>, 2)>>

\* <p> x <b>y </b><i><u>z</u></i><s>w<u>v</u></s><!--k--></p>
BlockP == <<Tag("p", 0, ""), NavigableString(<<" ", "x", " ">>, 1),
            Tag("b", 1, ""), NavigableString(<<"y", " ">>, 2),
            Tag("i", 1, ""), Tag("u", 2, ""), NavigableString(<<"z">>, 3),
            Tag("s", 1, ""), NavigableString(<<"w">>, 2), Tag("u", 2, ""),
            NavigableString(<<"v">>, 3),
            Comment(<<"k">>, 1)>>

\* <div><h4>B c</h4><p>c <!--n-->d</p></div>
BlockDiv == <<Tag("div", 0, ""), Tag("h4", 1, ""), NavigableString(<<"B", " ", "c">>, 2),
              Tag("p", 1, ""), NavigableString(<<"c", " ">>, 2), Comment(<<"n">>, 2),
              NavigableString(<<"d">>, 2)>>

Blocks == {BlockTitle, BlockH2, BlockH3, BlockBlank, BlockH5, BlockP, BlockDiv}

RECURSIVE Flatten(_)
Flatten(bs) == IF bs = <<>> THEN <<>> ELSE Head(bs) \o Flatten(Tail(bs))

\* <h1>Intro</h1><p>Hello <b>world</b></p><h2>Setup</h2><p>Step one.</p><h1>Intro</h1>
ExampleDoc ==
    <<Tag("h1", 0, ""), NavigableString(<<"I", "n", "t", "r", "o">>, 1),
      Tag("p", 0, ""), NavigableString(<<"H", "e", "l", "l", "o", " ">>, 1),
      Tag("b", 1, ""), NavigableString(<<"w", "o", "r", "l", "d">>, 2),
      Tag("h2", 0, ""), NavigableString(<<"S", "e", "t", "u", "p">>, 1),
      Tag("p", 0, ""),
      NavigableString(<<"S", "t", "e", "p", " ", "o", "n", "e", ".">>, 1),
      Tag("h1", 0, ""), NavigableString(<<"I", "n", "t", "r", "o">>, 1)>>

Docs ==
    {Flatten(bs) : bs \in UNION {[1..n -> Blocks] : n \in 0..MaxBlocks}}
        \cup {ExampleDoc}

\* list(soup): the kinds of the top-level nodes of the parsed input.
Tops == {<<"Comment", "Tag">>, <<"Doctype", "Tag">>, <<"Tag">>}

----------------------------------------------------------------------------
\* ChoppedH1

NoTopic == [h1_tag |-> 0, string |-> <<>>, slug |-> <<>>, index |-> 0, body |-> <<>>]

ChoppedH1(t, h1_tag, index) ==
    LET s == strip(string(t, h1_tag))
    IN [h1_tag |-> h1_tag, string |-> s, slug |-> slugify(s), index |-> index,
        body |-> <<>>]

\* _count_this_tag that sets the counter to 1 whether the key is there or not.
_count_this_tag_reset(stats_dict, name) ==
    IF name \in DOMAIN stats_dict
    THEN [stats_dict EXCEPT ![name] = 1]
    ELSE (name :> 1) @@ stats_dict

_count_this_tag(stats_dict, name) ==
    IF name \in DOMAIN stats_dict
    THEN [stats_dict EXCEPT ![name] = @ + 1]
    ELSE (name :> 1) @@ stats_dict

\* The children of a paragraph that have a .string, in order.
string_children(t, e) == SelectSeq(children(t, e), LAMBDA c : string(t, c) # None)

RECURSIVE count_these_tags(_, _, _)
count_these_tags(stats_dict, t, cs) ==
    IF cs = <<>> THEN stats_dict
    ELSE count_these_tags(_count_this_tag(stats_dict, t[Head(cs)].name), t, Tail(cs))

\* add_this_element that returns on a rejected element before counting it in
\* invalid_tag_count.
add_this_element_uncounted(topic, stats, t, e) ==
    LET counted == [stats EXCEPT !.element_count = @ + 1]
    IN IF t[e].name \notin VALID_ELEMENTS
       THEN [topic |-> topic,
             stats |-> [counted EXCEPT
                          !.invalid_tag_dict = _count_this_tag(@, t[e].name)],
             exit |-> FALSE]
       ELSE LET parsed == [counted EXCEPT
                             !.parsed_tag_count = @ + 1,
                             !.valid_tag_dict = _count_this_tag(@, t[e].name)]
            IN IF t[e].name = "p"
               THEN LET cs == string_children(t, e)
                        string_list == [k \in 1..Len(cs) |-> strip(string(t, cs[k]))]
                    IN [topic |-> [topic EXCEPT
                                     !.body = Append(@, [name |-> t[e].name,
                                                         string |-> join(string_list)])],
                        stats |-> [parsed EXCEPT
                                     !.valid_tag_dict = count_these_tags(@, t, cs)],
                        exit |-> FALSE]
               ELSE [topic |-> topic, stats |-> parsed, exit |-> TRUE]

\* add_this_element: the topic and the statistics after the call, and whether
\* the call ended the process.
add_this_element(topic, stats, t, e) ==
    LET counted == [stats EXCEPT !.element_count = @ + 1]
    IN IF t[e].name \notin VALID_ELEMENTS
       THEN [topic |-> topic,
             stats |-> [counted EXCEPT
                          !.invalid_tag_count = @ + 1,
                          !.invalid_tag_dict = _count_this_tag(@, t[e].name)],
             exit |-> FALSE]
       ELSE LET parsed == [counted EXCEPT
                             !.parsed_tag_count = @ + 1,
                             !.valid_tag_dict = _count_this_tag(@, t[e].name)]
            IN IF t[e].name = "p"
               THEN LET cs == string_children(t, e)
                        string_list == [k \in 1..Len(cs) |-> strip(string(t, cs[k]))]
                    IN [topic |-> [topic EXCEPT
                                     !.body = Append(@, [name |-> t[e].name,
                                                         string |-> join(string_list)])],
                        stats |-> [parsed EXCEPT
                                     !.valid_tag_dict = count_these_tags(@, t, cs)],
                        exit |-> FALSE]
               ELSE [topic |-> topic, stats |-> parsed, exit |-> TRUE]

\* soup.prettify() of a topic: its id, title and body paragraphs.
prettify(topic) == [id |-> topic.index, title |-> topic.string, body |-> topic.body]

Truncated == [id |-> 0, title |-> <<>>, body |-> <<>>]

output_file(topic) == topic.slug \o EXTN_XML

----------------------------------------------------------------------------
\* main()

promote(t, n) ==
    [i \in 1..Len(t) |-> IF i \in Range(find_all(t, n))
                         THEN [t[i] EXCEPT !.name = "h1"] ELSE t[i]]

\* promote_all with the last level of promote_these left out.
RECURSIVE promote_all_but_last(_, _)
promote_all_but_last(t, k) ==
    IF k >= Len(promote_these) THEN t
    ELSE promote_all_but_last(promote(t, promote_these[k]), k + 1)

RECURSIVE promote_all(_, _)
promote_all(t, k) ==
    IF k > Len(promote_these) THEN t
    ELSE promote_all(promote(t, promote_these[k]), k + 1)

\* h1_strings without the whitespace test.
h1_strings_unfiltered(t, hs) ==
    LET kept == SelectSeq(hs, LAMBDA h : string(t, h) # None)
    IN [k \in 1..Len(kept) |-> strip(string(t, kept[k]))]

h1_strings(t, hs) ==
    LET kept == SelectSeq(hs, LAMBDA h : string(t, h) # None /\ ~isspace(string(t, h)))
    IN [k \in 1..Len(kept) |-> strip(string(t, kept[k]))]

\* skip_this_h1 without the comparison to the document title.
skip_this_h1_untitled(t, h, title) ==
    \/ string(t, h) = None
    \/ isspace(string(t, h))

\* skip_this_h1 without the whitespace test.
skip_this_h1_unspaced(t, h, title) ==
    \/ string(t, h) = None
    \/ slugify(string(t, h)) = title

\* The two tests of the segmentation loop that skip a heading.
skip_this_h1(t, h, title) ==
    \/ string(t, h) = None
    \/ isspace(string(t, h))
    \/ slugify(string(t, h)) = title

Init ==
    /\ top \in Tops
    /\ doc \in Docs
    /\ tree = doc
    /\ pc = "start"
    /\ exc = "none"
    /\ the_h1s = <<>>
    /\ doc_title = None
    /\ dirs = {}
    /\ h1_pos = 0
    /\ h1_index = 0
    /\ chopped_thing = NoTopic
    /\ cursor = 0
    /\ chopped_list = <<>>
    /\ w_pos = 0
    /\ files = EmptyDict
    /\ the_stats = ElementStatisticsClass
    /\ calls = <<>>

\* CheckStructure passing the input on when either type test holds.
CheckStructureAny ==
    /\ pc = "start"
    /\ IF Len(top) < 2
       THEN pc' = "aborted" /\ exc' = "IndexError"
       ELSE IF ~(top[1] = "Comment" \/ top[2] = "Tag")
            THEN pc' = "aborted" /\ exc' = "SystemExit"
            ELSE pc' = "promote" /\ exc' = exc
    /\ UNCHANGED <<top, doc, tree, the_h1s, doc_title, dirs, h1_pos, h1_index,
                   chopped_thing, cursor, chopped_list, w_pos, files, the_stats, calls>>

\* The type tests on the first two top-level nodes.
CheckStructure ==
    /\ pc = "start"
    /\ IF Len(top) < 2
       THEN pc' = "aborted" /\ exc' = "IndexError"
       ELSE IF ~(top[1] = "Comment" /\ top[2] = "Tag")
            THEN pc' = "aborted" /\ exc' = "SystemExit"
            ELSE pc' = "promote" /\ exc' = exc
    /\ UNCHANGED <<top, doc, tree, the_h1s, doc_title, dirs, h1_pos, h1_index,
                   chopped_thing, cursor, chopped_list, w_pos, files, the_stats, calls>>

\* The promotion loops over h2..h5.
PromoteHeadings ==
    /\ pc = "promote"
    /\ tree' = promote_all(tree, 1)
    /\ pc' = "title"
    /\ UNCHANGED <<top, doc, exc, the_h1s, doc_title, dirs, h1_pos, h1_index,
                   chopped_thing, cursor, chopped_list, w_pos, files, the_stats, calls>>

\* find_all('h1'), the document title, the output folder, the loop variables.
ComputeTitle ==
    /\ pc = "title"
    /\ LET hs == find_all(tree, "h1")
           strs == h1_strings(tree, hs)
       IN /\ the_h1s' = hs
          /\ IF DUPLICATES_TRIGGERS_ERROR /\ Len(strs) # Cardinality(Range(strs))
             THEN /\ pc' = "aborted" /\ exc' = "SystemExit"
                  /\ UNCHANGED <<doc_title, dirs, h1_pos>>
             ELSE IF strs = <<>>
                  THEN /\ pc' = "aborted" /\ exc' = "IndexError"
                       /\ UNCHANGED <<doc_title, dirs, h1_pos>>
                  ELSE /\ doc_title' = slugify(strs[1])
                       /\ dirs' = dirs \cup {doc_title'}
                       /\ h1_pos' = 1
                       /\ pc' = "segment"
                       /\ exc' = exc
    /\ UNCHANGED <<top, doc, tree, h1_index, chopped_thing, cursor, chopped_list,
                   w_pos, files, the_stats, calls>>

\* Where the run goes once the heading at h1_pos is finished.
after_this_h1 == IF h1_pos + 1 > Len(the_h1s) THEN "write" ELSE "segment"

\* SkipHeading with the index incremented before the tests.
SkipHeadingCounted ==
    /\ pc = "segment"
    /\ skip_this_h1(tree, the_h1s[h1_pos], doc_title)
    /\ h1_pos' = h1_pos + 1
    /\ h1_index' = h1_index + 1
    /\ pc' = after_this_h1
    /\ w_pos' = IF pc' = "write" THEN 1 ELSE w_pos
    /\ UNCHANGED <<top, doc, tree, exc, the_h1s, doc_title, dirs,
                   chopped_thing, cursor, chopped_list, files, the_stats, calls>>

\* One iteration of the segmentation loop that hits a continue.
SkipHeading ==
    /\ pc = "segment"
    /\ skip_this_h1(tree, the_h1s[h1_pos], doc_title)
    /\ h1_pos' = h1_pos + 1
    /\ pc' = after_this_h1
    /\ w_pos' = IF pc' = "write" THEN 1 ELSE w_pos
    /\ UNCHANGED <<top, doc, tree, exc, the_h1s, doc_title, dirs, h1_index,
                   chopped_thing, cursor, chopped_list, files, the_stats, calls>>

\* One iteration of the segmentation loop that builds a topic.
AcceptHeading ==
    /\ pc = "segment"
    /\ ~skip_this_h1(tree, the_h1s[h1_pos], doc_title)
    /\ h1_index' = h1_index + 1
    /\ chopped_thing' = ChoppedH1(tree, the_h1s[h1_pos], h1_index')
    /\ cursor' = the_h1s[h1_pos] + 1
    /\ pc' = "walk"
    /\ UNCHANGED <<top, doc, tree, exc, the_h1s, doc_title, dirs, h1_pos,
                   chopped_list, w_pos, files, the_stats, calls>>

\* next_elements yields a node that is not a Tag.
WalkSkip ==
    /\ pc = "walk"
    /\ cursor <= Len(tree)
    /\ tree[cursor].kind # "Tag"
    /\ cursor' = cursor + 1
    /\ UNCHANGED <<top, doc, tree, pc, exc, the_h1s, doc_title, dirs, h1_pos, h1_index,
                   chopped_thing, chopped_list, w_pos, files, the_stats, calls>>

\* WalkAdd over the siblings of the heading only: deeper elements are passed by.
WalkAddSiblings ==
    /\ pc = "walk"
    /\ cursor <= Len(tree)
    /\ tree[cursor].kind = "Tag"
    /\ tree[cursor].name # "h1"
    /\ IF tree[cursor].depth = tree[chopped_thing.h1_tag].depth
       THEN LET r == add_this_element(chopped_thing, the_stats, tree, cursor)
            IN /\ chopped_thing' = r.topic
               /\ the_stats' = r.stats
               /\ calls' = Append(calls, <<chopped_thing.index, cursor>>)
       ELSE UNCHANGED <<chopped_thing, the_stats, calls>>
    /\ cursor' = cursor + 1
    /\ UNCHANGED <<top, doc, tree, pc, exc, the_h1s, doc_title, dirs, h1_pos, h1_index,
                   chopped_list, w_pos, files>>

\* next_elements yields an element that is handed to the topic.
WalkAdd ==
    /\ pc = "walk"
    /\ cursor <= Len(tree)
    /\ tree[cursor].kind = "Tag"
    /\ tree[cursor].name # "h1"
    /\ LET r == add_this_element(chopped_thing, the_stats, tree, cursor)
       IN /\ chopped_thing' = r.topic
          /\ the_stats' = r.stats
          /\ IF r.exit
             THEN pc' = "aborted" /\ exc' = "SystemExit"
             ELSE pc' = pc /\ exc' = exc
    /\ calls' = Append(calls, <<chopped_thing.index, cursor>>)
    /\ cursor' = cursor + 1
    /\ UNCHANGED <<top, doc, tree, the_h1s, doc_title, dirs, h1_pos, h1_index,
                   chopped_list, w_pos, files>>

\* next_elements yields the next h1, or is exhausted: the topic is complete.
WalkBreak ==
    /\ pc = "walk"
    /\ \/ cursor > Len(tree)
       \/ cursor <= Len(tree) /\ tree[cursor].kind = "Tag" /\ tree[cursor].name = "h1"
    /\ chopped_list' = Append(chopped_list, chopped_thing)
    /\ h1_pos' = h1_pos + 1
    /\ pc' = after_this_h1
    /\ w_pos' = IF pc' = "write" THEN 1 ELSE w_pos
    /\ UNCHANGED <<top, doc, tree, exc, the_h1s, doc_title, dirs, h1_index,
                   chopped_thing, cursor, files, the_stats, calls>>

\* WriteToFile that leaves a file alone when it is already there.
WriteToFileKeepsFirst ==
    /\ pc = "write"
    /\ w_pos <= Len(chopped_list)
    /\ files' = files @@ (output_file(chopped_list[w_pos]) :> prettify(chopped_list[w_pos]))
    /\ w_pos' = w_pos + 1
    /\ UNCHANGED <<top, doc, tree, pc, exc, the_h1s, doc_title, dirs, h1_pos, h1_index,
                   chopped_thing, cursor, chopped_list, the_stats, calls>>

\* One iteration of the write loop.
WriteToFile ==
    /\ pc = "write"
    /\ w_pos <= Len(chopped_list)
    /\ files' = (output_file(chopped_list[w_pos]) :> prettify(chopped_list[w_pos])) @@ files
    /\ w_pos' = w_pos + 1
    /\ UNCHANGED <<top, doc, tree, pc, exc, the_h1s, doc_title, dirs, h1_pos, h1_index,
                   chopped_thing, cursor, chopped_list, the_stats, calls>>

\* WriteFails with the failure caught and the loop going on to the next topic.
WriteFailsSkips ==
    /\ pc = "write"
    /\ w_pos <= Len(chopped_list)
    /\ \E opened \in BOOLEAN :
          files' = IF opened
                   THEN (output_file(chopped_list[w_pos]) :> Truncated) @@ files
                   ELSE files
    /\ w_pos' = w_pos + 1
    /\ exc' = "OSError"
    /\ UNCHANGED <<top, doc, tree, pc, the_h1s, doc_title, dirs, h1_pos, h1_index,
                   chopped_thing, cursor, chopped_list, the_stats, calls>>

\* open() or write() raises: the file is untouched, or left truncated.
WriteFails ==
    /\ pc = "write"
    /\ w_pos <= Len(chopped_list)
    /\ \E opened \in BOOLEAN :
          files' = IF opened
                   THEN (output_file(chopped_list[w_pos]) :> Truncated) @@ files
                   ELSE files
    /\ pc' = "aborted"
    /\ exc' = "OSError"
    /\ UNCHANGED <<top, doc, tree, the_h1s, doc_title, dirs, h1_pos, h1_index,
                   chopped_thing, cursor, chopped_list, w_pos, the_stats, calls>>

\* The report after the write loop.
Report ==
    /\ pc = "write"
    /\ w_pos > Len(chopped_list)
    /\ pc' = "done"
    /\ UNCHANGED <<top, doc, tree, exc, the_h1s, doc_title, dirs, h1_pos, h1_index,
                   chopped_thing, cursor, chopped_list, w_pos, files, the_stats, calls>>

Next ==
    \/ CheckStructure
    \/ PromoteHeadings
    \/ ComputeTitle
    \/ SkipHeading
    \/ AcceptHeading
    \/ WalkSkip
    \/ WalkAdd
    \/ WalkBreak
    \/ WriteToFile
    \/ WriteFails
    \/ Report

Spec == Init /\ [][Next]_vars

----------------------------------------------------------------------------
\* The input document as the statements below speak of it.

HeadingTags == {"h1", "h2", "h3", "h4", "h5"}

\* The headings of the input, top-level and subordinate.
Headings == {i \in 1..Len(doc) : doc[i].kind = "Tag" /\ doc[i].name \in HeadingTags}

\* The heading's text is present and not whitespace-only.
HasText(h) == string(doc, h) # None /\ ~isspace(string(doc, h))

TitledHeadings == {h \in Headings : HasText(h)}

TitleHeading ==
    LET th == TitledHeadings IN CHOOSE h \in th : \A g \in th : h <= g

TitleSlug == slugify(string(doc, TitleHeading))

\* The headings that pass the acceptance filter.
Accepted ==
    LET th == TitledHeadings
    IN IF th = {} THEN {}
       ELSE LET ts == TitleSlug IN {h \in th : slugify(string(doc, h)) # ts}

\* The topics built so far, the one under construction last.
Topics == IF pc = "walk" THEN Append(chopped_list, chopped_thing) ELSE chopped_list

\* The input passes the type tests on its first two top-level nodes.
PassedStructure == Len(top) >= 2 /\ top[1] = "Comment" /\ top[2] = "Tag"

\* The segmentation loop has ended.
Segmented == w_pos >= 1

\* The nearest heading before node e in document order, 0 when there is none.
HeadingBeforeIn(hs, e) ==
    LET before == {h \in hs : h < e}
    IN IF before = {} THEN 0 ELSE CHOOSE h \in before : \A g \in before : g <= h

HeadingBefore(e) == HeadingBeforeIn(Headings, e)

\* The elements of the input that are not headings.
Elements == {e \in 1..Len(doc) : doc[e].kind = "Tag" /\ e \notin Headings}

----------------------------------------------------------------------------
\* C1: the topics' indices are 1..N in document order of their headings, N
\* the number of headings that pass the acceptance filter; a rejected heading
\* consumes no index and yields no topic and no file.
C1_IndicesDense ==
    LET acc == Accepted
    IN
    /\ h1_index = Len(Topics)
    /\ \A k \in 1..Len(Topics) :
          /\ Topics[k].index = k
          /\ Topics[k].h1_tag \in acc
          /\ Cardinality({h \in acc : h <= Topics[k].h1_tag}) = k
    /\ Segmented => Len(chopped_list) = Cardinality(acc)
    /\ \A f \in DOMAIN files :
          /\ \E k \in 1..Len(chopped_list) : output_file(chopped_list[k]) = f
          /\ f # doc_title \o EXTN_XML

\* A finished run with a rejected heading between two accepted ones.
C1_Witness ==
    /\ pc = "done"
    /\ Len(chopped_list) >= 2
    /\ \E r \in Headings \ Accepted :
          chopped_list[1].h1_tag < r /\ r < chopped_list[2].h1_tag
    /\ DOMAIN files # {}

\* C2: the document title is the slug of the first heading with non-blank
\* text, and no topic is built for a heading whose slug is that title, the
\* title heading and its later repetitions alike.
C2_TitleExcluded ==
    /\ doc_title # None => TitledHeadings # {} /\ doc_title = TitleSlug
    /\ (PassedStructure /\ TitledHeadings # {} /\ pc \notin {"start", "promote", "title"})
          => doc_title # None
    /\ \A k \in 1..Len(Topics) :
          /\ slugify(string(doc, Topics[k].h1_tag)) # doc_title
          /\ Topics[k].slug # doc_title

\* A finished run whose title heading follows a blank heading and is repeated
\* by a later heading, with a topic built for another heading.
C2_Witness ==
    /\ pc = "done"
    /\ chopped_list # <<>>
    /\ \E b \in Headings \ TitledHeadings : b < TitleHeading
    /\ \E h \in TitledHeadings :
          h > TitleHeading /\ slugify(string(doc, h)) = TitleSlug

\* C3: an element is handed to a topic exactly when the nearest heading before
\* it is that topic's heading; headings are never handed over; no element is
\* handed over twice.
C3_SpanExact ==
    LET hs == Headings
        elements == Elements
        handed == Range(calls)
    IN
    /\ \A k \in 1..Len(calls) :
          /\ calls[k][2] \in elements
          /\ calls[k][1] \in 1..Len(Topics)
          /\ HeadingBeforeIn(hs, calls[k][2]) = Topics[calls[k][1]].h1_tag
          /\ \A j \in 1..(k - 1) : calls[j][2] # calls[k][2]
    /\ \A e \in elements :
          LET h == HeadingBeforeIn(hs, e)
          IN \A k \in 1..Len(chopped_list) :
                h = chopped_list[k].h1_tag => <<k, e>> \in handed

\* A finished run that handed over an element nested below a later sibling of
\* its heading, and passed by an element that follows a rejected heading.
C3_Witness ==
    /\ pc = "done"
    /\ \E k \in 1..Len(calls) :
          /\ doc[calls[k][2]].depth > doc[HeadingBefore(calls[k][2])].depth
          /\ calls[k][2] > SubtreeEnd(doc, HeadingBefore(calls[k][2]),
                                      HeadingBefore(calls[k][2]))
    /\ \E e \in Elements :
          /\ HeadingBefore(e) \in Headings \ Accepted
          /\ \A k \in 1..Len(calls) : calls[k][2] # e

\* C4: after the promotion no h2..h5 is left, every node but the renamed
\* headings is as it was, and find_all('h1') is the headings of the input in
\* document order.
C4_Promoted ==
    PassedStructure /\ pc \notin {"start", "promote"} =>
       LET hs == Headings
       IN
       /\ \A i \in 1..Len(tree) : tree[i].name \notin {"h2", "h3", "h4", "h5"}
       /\ Len(tree) = Len(doc)
       /\ \A i \in 1..Len(doc) :
             tree[i] = IF i \in hs THEN [doc[i] EXCEPT !.name = "h1"] ELSE doc[i]
       /\ pc # "title" =>
             /\ Range(the_h1s) = hs
             /\ \A j, k \in 1..Len(the_h1s) : j < k => the_h1s[j] < the_h1s[k]

\* The promotion has run on an input with an h1, a nested h4 and an h5 that
\* carries attributes or content of its own.
C4_Witness ==
    /\ pc = "segment"
    /\ \E i, j, k \in Headings :
          /\ doc[i].name = "h1" /\ doc[j].name = "h4" /\ doc[k].name = "h5"
          /\ doc[j].depth > 0
          /\ k < i

----------------------------------------------------------------------------
\* A step is a call of add_this_element when it extends the log of calls; the
\* element handed over is the one under the cursor.

IsCall == Len(calls') = Len(calls) + 1

\* The counter of name n in a tally, 0 when the tally has no such key.
Count(d, n) == IF n \in DOMAIN d THEN d[n] ELSE 0

TagNames == {tree[i].name : i \in 1..Len(tree)}

\* C5: a call of add_this_element on an element that is not a p leaves the
\* topic body as it was and raises the rejected counter of the element's tag
\* name by 1, and no other rejected counter.
C5_RejectedElement ==
    [][(IsCall /\ tree[cursor].name # "p") =>
          /\ chopped_thing'.body = chopped_thing.body
          /\ \A n \in TagNames :
                Count(the_stats'.invalid_tag_dict, n) =
                   Count(the_stats.invalid_tag_dict, n)
                      + (IF n = tree[cursor].name THEN 1 ELSE 0)
          /\ DOMAIN the_stats'.invalid_tag_dict \subseteq TagNames]_vars

\* The last call rejected an element whose tag name had been rejected before,
\* for a topic whose body already holds a paragraph.
C5_Witness ==
    /\ pc = "walk"
    /\ calls # <<>>
    /\ calls[Len(calls)][2] = cursor - 1
    /\ tree[cursor - 1].name # "p"
    /\ Count(the_stats.invalid_tag_dict, tree[cursor - 1].name) >= 2
    /\ chopped_thing.body # <<>>

\* A child is a chain when it is a string, or an element whose subtree is a
\* single line of only children that ends in a string.
IsChain(t, c) ==
    LET last == SubtreeEnd(t, c, c)
    IN /\ t[last].kind # "Tag"
       /\ \A j \in c..last : t[j].depth = t[c].depth + (j - c)

ChainText(t, c) == t[SubtreeEnd(t, c, c)].text

\* A child carries direct text when it is a text node, or an element with a
\* text node among its own children.
CarriesDirectText(t, c) ==
    \/ t[c].kind = "NavigableString"
    \/ /\ t[c].kind = "Tag"
       /\ \E k \in 1..Len(children(t, c)) : t[children(t, c)[k]].kind = "NavigableString"

RECURSIVE Concat(_)
Concat(list) == IF list = <<>> THEN <<>> ELSE Head(list) \o Concat(Tail(list))

DirectText(t, c) ==
    IF t[c].kind = "NavigableString" THEN t[c].text
    ELSE LET ts == SelectSeq(children(t, c), LAMBDA k : t[k].kind = "NavigableString")
         IN Concat([k \in 1..Len(ts) |-> t[ts[k]].text])

\* The texts of a list in order, one space between each two of them.
RECURSIVE SpaceJoined(_)
SpaceJoined(list) ==
    IF Len(list) <= 1 THEN Concat(list)
    ELSE SpaceJoined(SubSeq(list, 1, Len(list) - 1)) \o <<" ">> \o list[Len(list)]

\* The paragraph made of the children that carry direct text.
DirectTextParagraph(t, e) ==
    LET cs == SelectSeq(children(t, e), LAMBDA c : CarriesDirectText(t, c))
    IN [name |-> "p",
        string |-> SpaceJoined([k \in 1..Len(cs) |-> strip(DirectText(t, cs[k]))])]

\* The paragraph made of the children that are chains.
ChainParagraph(t, e) ==
    LET cs == SelectSeq(children(t, e), LAMBDA c : IsChain(t, c))
    IN [name |-> "p",
        string |-> SpaceJoined([k \in 1..Len(cs) |-> strip(ChainText(t, cs[k]))])]

\* C6 as stated: a call on a p appends one paragraph, the space-joined trimmed
\* texts of the children that carry direct text.
C6_DirectTextChildren ==
    [][(IsCall /\ tree[cursor].name = "p") =>
          chopped_thing'.body =
             Append(chopped_thing.body, DirectTextParagraph(tree, cursor))]_vars

\* C6, amended: a call on a p appends one paragraph to the end of the body,
\* the single-space join, in child order, of the trimmed strings of the
\* children that are chains: text and comment nodes, and elements whose only
\* child is, in turn, such a node.  Every other child contributes no entry.
C6_ChainChildren ==
    [][(IsCall /\ tree[cursor].name = "p") =>
          chopped_thing'.body =
             Append(chopped_thing.body, ChainParagraph(tree, cursor))]_vars

\* The last call was on a p with a contributing text child, a contributing
\* element child and a skipped child, and appended a second paragraph.
C6_Witness ==
    /\ pc = "walk"
    /\ calls # <<>>
    /\ calls[Len(calls)][2] = cursor - 1
    /\ tree[cursor - 1].name = "p"
    /\ Len(chopped_thing.body) >= 2
    /\ LET cs == children(tree, cursor - 1)
       IN /\ \E k \in 1..Len(cs) : tree[cs[k]].kind = "NavigableString"
          /\ \E k \in 1..Len(cs) : tree[cs[k]].kind = "Tag" /\ IsChain(tree, cs[k])
          /\ \E k \in 1..Len(cs) : ~IsChain(tree, cs[k])

----------------------------------------------------------------------------
\* The run on the example document of the specification.

ExampleRun == doc = ExampleDoc /\ pc = "done"

ExampleTopics ==
    /\ Len(chopped_list) = 1
    /\ chopped_list[1].index = 1
    /\ chopped_list[1].slug = <<"s", "e", "t", "u", "p">>
    /\ chopped_list[1].body =
          <<[name |-> "p", string |-> <<"S", "t", "e", "p", " ", "o", "n", "e", ".">>]>>
    /\ DOMAIN files = {<<"s", "e", "t", "u", "p", ".", "x", "m", "l">>}
    /\ \A f \in DOMAIN files : files[f] = prettify(chopped_list[1])
    /\ doc_title = <<"i", "n", "t", "r", "o">>
    /\ \A k \in 1..Len(chopped_list) : doc[chopped_list[k].h1_tag].name # "h1"

\* C7 as stated: the example yields the one topic setup.xml with the one
\* paragraph 'Step one.', no topic for either Intro heading, and b tallied as
\* accepted.
C7_ExampleTalliesB ==
    ExampleRun => ExampleTopics /\ Count(the_stats.valid_tag_dict, "b") >= 1

\* C7, amended: the example yields the one topic setup.xml with the one
\* paragraph 'Step one.' and no topic for either Intro heading; the b element
\* follows the title heading, is never handed to add_this_element and is in
\* neither tally: the accepted tally is p: 1, None: 1, the rejected one empty.
C7_ExampleSkipsB ==
    ExampleRun =>
       /\ ExampleTopics
       /\ \A k \in 1..Len(calls) : doc[calls[k][2]].name # "b"
       /\ the_stats.valid_tag_dict = ("p" :> 1) @@ ("None" :> 1)
       /\ the_stats.invalid_tag_dict = EmptyDict

C7_Witness == ExampleRun /\ DOMAIN files # {}

----------------------------------------------------------------------------
\* C8: the iteration of the segmentation loop on a heading whose text is
\* absent or whitespace-only builds no topic and leaves the index and both
\* tallies as they were; and such a heading is never handed to
\* add_this_element.
C8_BlankSkipped ==
    /\ [][(pc = "segment" /\ the_h1s[h1_pos] \notin TitledHeadings) =>
             /\ h1_index' = h1_index
             /\ chopped_list' = chopped_list
             /\ chopped_thing' = chopped_thing
             /\ the_stats' = the_stats
             /\ calls' = calls
             /\ pc' # "walk"]_vars
    /\ [](\A k \in 1..Len(calls) : calls[k][2] \notin Headings \ TitledHeadings)

\* A finished run in which a blank heading ended the span of a topic that had
\* been handed elements.
C8_Witness ==
    /\ pc = "done"
    /\ \E b \in Headings \ TitledHeadings :
          /\ isspace(string(doc, b))
          /\ \E k \in 1..Len(calls) :
                /\ HeadingBefore(b) = chopped_list[calls[k][1]].h1_tag
                /\ calls[k][2] < b

\* The run has had no effect: no folder, no topic, no file, empty tallies.
NoEffect ==
    /\ dirs = {}
    /\ chopped_list = <<>>
    /\ chopped_thing = NoTopic
    /\ h1_index = 0
    /\ DOMAIN files = {}
    /\ calls = <<>>
    /\ the_stats = ElementStatisticsClass

\* C9: an input whose first two top-level nodes are not a comment and an
\* element stops at the type tests, an input with no heading of non-blank
\* text stops at the document title, and either way the run has had no
\* effect.
C9_AbortsClean ==
    /\ ~PassedStructure => pc \in {"start", "aborted"}
    /\ TitledHeadings = {} => pc \in {"start", "promote", "title", "aborted"}
    /\ (~PassedStructure \/ TitledHeadings = {}) => NoEffect

\* A run aborted at the document title of an input that has headings, all of
\* them blank.
C9_Witness ==
    /\ pc = "aborted"
    /\ PassedStructure
    /\ Headings # {}
    /\ TitledHeadings = {}
    /\ exc = "IndexError"

\* C10: once a failure has been raised the run is over: no topic is built and
\* no file written after it; and no file is written before every topic has
\* been built.
C10_AllOrNothing ==
    /\ [][exc # "none" =>
             UNCHANGED <<chopped_list, chopped_thing, h1_index, files, w_pos, pc>>]_vars
    /\ [](exc # "none" => pc = "aborted")
    /\ [](DOMAIN files # {} =>
             Segmented /\ Len(chopped_list) = Cardinality(Accepted))
    /\ [](pc \in {"segment", "walk"} => DOMAIN files = {})

\* A run whose second write failed, with one file written and a third topic
\* never written.
C10_Witness ==
    /\ pc = "aborted"
    /\ exc = "OSError"
    /\ w_pos = 2
    /\ Len(chopped_list) >= 3
    /\ Cardinality(DOMAIN files) = 1

----------------------------------------------------------------------------
\* The topics among the first n of chopped_list that are written to file f.
WrittenTo(f, n) == {k \in 1..n : output_file(chopped_list[k]) = f}

\* C11: slugs are not checked for collisions.  While no write has failed,
\* every accepted heading has its own topic and index, the topics written so
\* far went, in index order, to <slug>.xml in the folder of the document
\* title, each file holds the highest-indexed topic written to it, and there
\* are as many files as distinct slugs among the topics written; a finished
\* run has written every topic.
C11_LastWriterWins ==
    (exc = "none" /\ Segmented) =>
       LET written == w_pos - 1
       IN /\ Len(chopped_list) = Cardinality(Accepted)
          /\ \A k \in 1..Len(chopped_list) : chopped_list[k].index = k
          /\ written <= Len(chopped_list)
          /\ pc = "done" => written = Len(chopped_list)
          /\ dirs = {doc_title}
          /\ DOMAIN files = {chopped_list[k].slug \o EXTN_XML : k \in 1..written}
          /\ \A f \in DOMAIN files :
                \E k \in WrittenTo(f, written) :
                   /\ \A j \in WrittenTo(f, written) : j <= k
                   /\ files[f] = prettify(chopped_list[k])
          /\ Cardinality(DOMAIN files) =
                Cardinality({chopped_list[k].slug : k \in 1..written})

\* A finished run of three topics, two of them with one slug from headings of
\* different text, written to two files.
C11_Witness ==
    /\ pc = "done"
    /\ Len(chopped_list) = 3
    /\ Cardinality(DOMAIN files) = 2
    /\ \E j, k \in 1..3 :
          /\ j < k
          /\ chopped_list[j].slug = chopped_list[k].slug
          /\ chopped_list[j].string # chopped_list[k].string
          /\ files[output_file(chopped_list[j])].title = chopped_list[k].string

----------------------------------------------------------------------------
\* The sum of the counts of a tally.
RECURSIVE Total(_)
Total(d) ==
    IF DOMAIN d = {} THEN 0
    ELSE LET n == CHOOSE m \in DOMAIN d : TRUE
         IN d[n] + Total([m \in DOMAIN d \ {n} |-> d[m]])

\* No key of tally d is lost and no count of it is lower in tally e.
Grown(d, e) == \A n \in DOMAIN d : n \in DOMAIN e /\ e[n] >= d[n]

\* C12: no counter and no tally entry ever decreases; a call of
\* add_this_element raises element_count by 1 and exactly one of
\* parsed_tag_count and invalid_tag_count by 1; element_count is their sum,
\* invalid_tag_count is the sum of the rejected tally, and the sum of the
\* accepted tally is at least parsed_tag_count.
C12_TalliesGrow ==
    /\ [][/\ the_stats'.element_count >= the_stats.element_count
          /\ the_stats'.parsed_tag_count >= the_stats.parsed_tag_count
          /\ the_stats'.invalid_tag_count >= the_stats.invalid_tag_count
          /\ Grown(the_stats.valid_tag_dict, the_stats'.valid_tag_dict)
          /\ Grown(the_stats.invalid_tag_dict, the_stats'.invalid_tag_dict)
          /\ IsCall =>
                /\ the_stats'.element_count = the_stats.element_count + 1
                /\ \/ /\ the_stats'.parsed_tag_count = the_stats.parsed_tag_count + 1
                      /\ the_stats'.invalid_tag_count = the_stats.invalid_tag_count
                   \/ /\ the_stats'.parsed_tag_count = the_stats.parsed_tag_count
                      /\ the_stats'.invalid_tag_count = the_stats.invalid_tag_count + 1
          /\ ~IsCall => the_stats' = the_stats]_vars
    /\ [](/\ the_stats.element_count =
                the_stats.parsed_tag_count + the_stats.invalid_tag_count
          /\ the_stats.element_count = Len(calls)
          /\ the_stats.invalid_tag_count = Total(the_stats.invalid_tag_dict)
          /\ Total(the_stats.valid_tag_dict) >= the_stats.parsed_tag_count)

\* A finished run that parsed a paragraph with contributing children and
\* rejected one tag name twice.
C12_Witness ==
    /\ pc = "done"
    /\ the_stats.parsed_tag_count >= 1
    /\ Total(the_stats.valid_tag_dict) > the_stats.parsed_tag_count
    /\ the_stats.invalid_tag_count >= 3
    /\ \E n \in DOMAIN the_stats.invalid_tag_dict : the_stats.invalid_tag_dict[n] >= 2

====
